---- MODULE Spec2Model ----
(***************************************************************************)
(* SkillSphere AI services: GapAnalysisModel.analyze_gaps and the helpers  *)
(* it calls (ai-services/models/gap_analysis_model.py),                    *)
(* SkillsPreprocessor.normalize_skill_name and                             *)
(* DataValidator.validate_skills_data (ai-services/utils/preprocessing.py) *)
(* and the ModelManager (ai-services/models/model_manager.py).             *)
(*                                                                         *)
(* Specifications.  Spec: one call of analyze_gaps.  SpecVariants: the     *)
(* same call on skill names in several spellings.  SpecTimeline:           *)
(* _create_development_timeline called on its own.  SpecNormalize:         *)
(* normalize_skill_name called on a string and on its own result.          *)
(* SpecValidate: validate_skills_data called on a request's skills.        *)
(* SpecRequests: two analyze_gaps requests served by one process.          *)
(* SpecEstimate: _estimate_development_time called on its own.  SpecPlan:  *)
(* the gap computation followed by the timeline step.  SpecManager: the    *)
(* calls of a ModelManager in any order, with a clock.                     *)
(*                                                                         *)
(* Numbers.  Python floats are modelled in fixed point:                    *)
(*   - a priority p is the integer 100 * p (0.8 is 80);                    *)
(*   - a market demand / salary impact v is the integer 10 * v;            *)
(*   - a jitter value (np.random.normal) is the integer 10 * v;            *)
(*   - coverage_percentage is an exact fraction [num, den];                *)
(*   - match_score is the cosine in exact form [num, den2], standing for   *)
(*     100 * num / sqrt(den2) (0 when den2 = 0).                           *)
(* The market values of MarketDatas are ones for which IEEE double         *)
(* evaluation of 0.5 + d*0.3 + s*0.2 orders and compares (with 0.5, 0.8,   *)
(* 0 and 1) exactly as the fixed point value does.                         *)
(***************************************************************************)
EXTENDS Integers, Sequences, FiniteSets, TLC

VARIABLES
    user_skills,        \* argument: list of skill dicts
    job_requirements,   \* argument: list of requirement strings
    market_data,        \* argument: dict of dicts keyed by skill name
    hash_seed,          \* the interpreter's string hash seed
    np_random,          \* numpy's global generator: position in its stream
    pc,                 \* "called" before the body runs, "returned" after
                        \* ("renormalized": the result was passed in again)
    emitted_gaps,       \* local skill_gaps as built by lines 64-91
    skill_gaps,         \* local skill_gaps after the sort of line 94
    result,             \* the returned dict
    call,               \* arguments of a helper that is called on its own
    ret,                \* what that helper returned
    model_manager,      \* the global ModelManager instance: its three dicts
    now                 \* datetime.now(), in hours

vars == <<user_skills, job_requirements, market_data, hash_seed, np_random, pc,
          emitted_gaps, skill_gaps, result, call, ret, model_manager, now>>

(***************************************************************************)
(* Bounds of the model.                                                    *)
(***************************************************************************)
MaxSkills == 2          \* longest user skill list
MaxReqs == 2            \* longest requirement list

(***************************************************************************)
(* Python built-ins.                                                       *)
(***************************************************************************)
UpperLetters == "ABCDEFGHIJKLMNOPQRSTUVWXYZ"
LowerLetters == "abcdefghijklmnopqrstuvwxyz"

\* one character of str.lower()
LowerChar(c) ==
    IF \E i \in 1..Len(UpperLetters) : SubSeq(UpperLetters, i, i) = c
    THEN LET i == CHOOSE j \in 1..Len(UpperLetters) : SubSeq(UpperLetters, j, j) = c
         IN  SubSeq(LowerLetters, i, i)
    ELSE c

RECURSIVE LowerFrom(_, _)
LowerFrom(s, i) ==
    IF i > Len(s) THEN "" ELSE LowerChar(SubSeq(s, i, i)) \o LowerFrom(s, i + 1)

\* str.lower(), character by character
LowerOf(s) == LowerFrom(s, 1)

\* "sub in s" on two strings: substring test, position by position
IsSubstring(sub, s) ==
    \E i \in 1..(Len(s) - Len(sub) + 1) : SubSeq(s, i, i + Len(sub) - 1) = sub

\* "x in list"
InList(x, list) == \E i \in 1..Len(list) : list[i] = x

\* dict.get(key, default)
DictGet(d, key, default) == IF key \in DOMAIN d THEN d[key] ELSE default

\* the empty dict {}
EmptyDict == [k \in {} |-> 0]

\* model_manager.py, ModelManager.__init__, lines 29-31: the three dicts of
\* a manager that found no metadata file
ModelManager ==
    [loaded_models |-> EmptyDict, model_metadata |-> EmptyDict,
     cache_expiry |-> EmptyDict]

\* sum(...) over a list
RECURSIVE SumSeq(_)
SumSeq(s) == IF s = <<>> THEN 0 ELSE Head(s) + SumSeq(Tail(s))

Min(a, b) == IF a <= b THEN a ELSE b
Max(a, b) == IF a >= b THEN a ELSE b

\* int(x) on x = n/10: truncation toward zero
IntOfTenths(n) == IF n >= 0 THEN n \div 10 ELSE -((-n) \div 10)

(***************************************************************************)
(* The inputs a call can be given.  Levels are the validated ones          *)
(* (DataValidator.validate_skills_data), a skill dict may omit 'level'.    *)
(***************************************************************************)
UserNames == {"Python", "sql"}

\* one skill below, at and above the levels requirements ask for, and one
\* without 'level'
SkillDicts ==
    {[name |-> "Python", level |-> 2], [name |-> "Python", level |-> 5],
     [name |-> "sql", level |-> 3], [name |-> "sql"]}

ReqStrings == {"Python", "Python (Senior)", "SQL", "MySQL (Junior)"}

\* the level keywords _get_required_level looks for
LevelKeywords == {"senior", "expert", "intermediate", "mid", "junior", "entry"}

(***************************************************************************)
(* str.lower() and the substring test are computed once for the strings    *)
(* of the model and looked up afterwards.                                  *)
(***************************************************************************)
RawStrings == UserNames \cup ReqStrings \cup {""}
LowerTable == {<<s, LowerOf(s)>> : s \in RawStrings}
LoweredStrings == {p[2] : p \in LowerTable}
SubstringTable ==
    {<<sub, s>> \in (LevelKeywords \cup LoweredStrings) \X LoweredStrings :
        IsSubstring(sub, s)}

lower(s) ==
    IF s \in RawStrings THEN (CHOOSE p \in LowerTable : p[1] = s)[2] ELSE LowerOf(s)

Contains(sub, s) ==
    IF sub \in (LevelKeywords \cup LoweredStrings) /\ s \in LoweredStrings
    THEN <<sub, s>> \in SubstringTable
    ELSE IsSubstring(sub, s)

\* market_data: {} ; in-range values ; values outside [0,1] and odd levels
MarketDatas ==
    { EmptyDict,
      [demand |-> [python |-> 10, sql |-> 0],
       salary_impact |-> [python |-> 10],
       skill_levels |-> [sql |-> 1, python |-> 2]],
      [demand |-> [sql |-> 20, python |-> -20],
       salary_impact |-> [sql |-> 20, python |-> -20],
       skill_levels |-> [sql |-> -1]] }

\* np.random.normal(0, 0.5): the generator's stream, in tenths
NormalStream == <<0, -6, 4>>

SeqsUpTo(S, n) == UNION {[1..k -> S] : k \in 0..n}

(***************************************************************************)
(* _get_required_level                                                     *)
(***************************************************************************)
\* list comprehension [req.lower() for req in job_requirements]
LowerAll(reqs) == [i \in 1..Len(reqs) |-> lower(reqs[i])]

\* mutation of KeywordLevel: the market's default 3 as the level of a
\* requirement without keyword
KeywordLevel_Default3(req_lower) ==
    IF Contains("senior", req_lower) \/ Contains("expert", req_lower) THEN 5
    ELSE IF Contains("intermediate", req_lower) \/ Contains("mid", req_lower) THEN 3
    ELSE IF Contains("junior", req_lower) \/ Contains("entry", req_lower) THEN 2
    ELSE 3

\* the if / elif chain on the level keywords of one lower-cased requirement
KeywordLevel(req_lower) ==
    IF Contains("senior", req_lower) \/ Contains("expert", req_lower) THEN 5
    ELSE IF Contains("intermediate", req_lower) \/ Contains("mid", req_lower) THEN 3
    ELSE IF Contains("junior", req_lower) \/ Contains("entry", req_lower) THEN 2
    ELSE 4

\* market_data.get('skill_levels', {}).get(skill_name, 3)
MarketLevel(skill_name, md) ==
    DictGet(DictGet(md, "skill_levels", EmptyDict), skill_name, 3)

\* the for loop over job_requirements: the first requirement containing
\* skill_name decides; falling out of the loop reaches the market lookup
RECURSIVE RequiredLevelLoop(_, _, _, _)
RequiredLevelLoop(skill_name, reqs, md, i) ==
    IF i > Len(reqs) THEN MarketLevel(skill_name, md)
    ELSE IF Contains(skill_name, lower(reqs[i])) THEN KeywordLevel(lower(reqs[i]))
    ELSE RequiredLevelLoop(skill_name, reqs, md, i + 1)

_get_required_level(skill_name, reqs, md) ==
    IF InList(skill_name, LowerAll(reqs))
    THEN RequiredLevelLoop(skill_name, reqs, md, 1)
    ELSE MarketLevel(skill_name, md)

(***************************************************************************)
(* _calculate_priority (fixed point, hundredths)                           *)
(***************************************************************************)
\* mutation of _calculate_priority: the clamp of line 167 left out
_calculate_priority_NoClamp(skill_name, md) ==
    LET market_demand == DictGet(DictGet(md, "demand", EmptyDict), skill_name, 5)
        salary_impact == DictGet(DictGet(md, "salary_impact", EmptyDict), skill_name, 5)
    IN  50 + market_demand * 3 + salary_impact * 2

\* mutation of _calculate_priority: a base priority of 0.4 instead of 0.5
_calculate_priority_LowBase(skill_name, md) ==
    LET market_demand == DictGet(DictGet(md, "demand", EmptyDict), skill_name, 5)
        salary_impact == DictGet(DictGet(md, "salary_impact", EmptyDict), skill_name, 5)
        priority == 40 + market_demand * 3 + salary_impact * 2
    IN  Min(100, Max(0, priority))

_calculate_priority(skill_name, md) ==
    LET market_demand == DictGet(DictGet(md, "demand", EmptyDict), skill_name, 5)
        salary_impact == DictGet(DictGet(md, "salary_impact", EmptyDict), skill_name, 5)
        priority == 50 + market_demand * 3 + salary_impact * 2
    IN  Min(100, Max(0, priority))

(***************************************************************************)
(* _estimate_development_time: variance is the value drawn, in tenths      *)
(***************************************************************************)
\* mutation of _estimate_development_time: the minimum of line 176 left out
_estimate_development_time_NoMinimum(gap_size, variance) ==
    LET base_time == gap_size * 25
    IN  IntOfTenths(base_time + variance)

_estimate_development_time(gap_size, variance) ==
    LET base_time == gap_size * 25
    IN  Max(1, IntOfTenths(base_time + variance))

\* one draw from the global generator at position pos, and the position after
Draw(pos) == NormalStream[pos]
Advance(pos) == (pos % Len(NormalStream)) + 1

(***************************************************************************)
(* analyze_gaps, lines 53-91: the gap computation                          *)
(***************************************************************************)
\* skill.get('name', '').lower()
user_skill_names(us) == [i \in 1..Len(us) |-> lower(DictGet(us[i], "name", ""))]
\* skill.get('level', 1)
user_skill_levels(us) == [i \in 1..Len(us) |-> DictGet(us[i], "level", 1)]
job_skill_names(reqs) == LowerAll(reqs)

\* [skill for skill in job_skill_names if skill not in user_skill_names]
RECURSIVE FilterNotIn(_, _)
FilterNotIn(list, other) ==
    IF list = <<>> THEN <<>>
    ELSE IF InList(Head(list), other) THEN FilterNotIn(Tail(list), other)
    ELSE <<Head(list)>> \o FilterNotIn(Tail(list), other)

missing_skills(us, reqs) == FilterNotIn(job_skill_names(reqs), user_skill_names(us))

\* the dict appended at lines 71-78
ExistingGap(skill_name, current_level, required_level, md, pos) ==
    [skill_name |-> skill_name,
     current_level |-> current_level,
     required_level |-> required_level,
     gap_size |-> required_level - current_level,
     priority |-> _calculate_priority(skill_name, md),
     estimated_time |->
         _estimate_development_time(required_level - current_level, Draw(pos))]

\* mutation of MissingGap: the is_missing entry left out
MissingGap_NoFlag(skill_name, required_level, md, pos) ==
    [skill_name |-> skill_name,
     current_level |-> 0,
     required_level |-> required_level,
     gap_size |-> required_level,
     priority |-> _calculate_priority(skill_name, md),
     estimated_time |-> _estimate_development_time(required_level, Draw(pos))]

\* the dict appended at lines 83-91
MissingGap(skill_name, required_level, md, pos) ==
    [skill_name |-> skill_name,
     current_level |-> 0,
     required_level |-> required_level,
     gap_size |-> required_level,
     priority |-> _calculate_priority(skill_name, md),
     estimated_time |-> _estimate_development_time(required_level, Draw(pos)),
     is_missing |-> TRUE]

\* mutation of HasGap: the comparison the wrong way round
HasGap_Flipped(current_level, required_level) == current_level > required_level

\* the guard of line 70
HasGap(current_level, required_level) == current_level < required_level

\* lines 65-78; acc = [gaps, pos]: the list so far and the generator position
RECURSIVE ExistingLoop(_, _, _, _, _)
ExistingLoop(us, reqs, md, i, acc) ==
    IF i > Len(us) THEN acc
    ELSE LET skill_name == user_skill_names(us)[i]
             current_level == user_skill_levels(us)[i]
             required_level == _get_required_level(skill_name, reqs, md)
         IN  IF InList(skill_name, job_skill_names(reqs))
                  /\ HasGap(current_level, required_level)
             THEN ExistingLoop(us, reqs, md, i + 1,
                      [gaps |-> Append(acc.gaps,
                                   ExistingGap(skill_name, current_level,
                                               required_level, md, acc.pos)),
                       pos |-> Advance(acc.pos)])
             ELSE ExistingLoop(us, reqs, md, i + 1, acc)

\* lines 81-91
RECURSIVE MissingLoop(_, _, _, _, _)
MissingLoop(missing, reqs, md, j, acc) ==
    IF j > Len(missing) THEN acc
    ELSE LET skill_name == missing[j]
             required_level == _get_required_level(skill_name, reqs, md)
         IN  MissingLoop(missing, reqs, md, j + 1,
                 [gaps |-> Append(acc.gaps,
                              MissingGap(skill_name, required_level, md, acc.pos)),
                  pos |-> Advance(acc.pos)])

\* lines 53-91 as a whole
ComputeGaps(us, reqs, md, pos) ==
    MissingLoop(missing_skills(us, reqs), reqs, md, 1,
                ExistingLoop(us, reqs, md, 1, [gaps |-> <<>>, pos |-> pos]))

\* gap.get('is_missing', False), the way the code reads the flag (line 264)
IsMissing(gap) == DictGet(gap, "is_missing", FALSE)


(***************************************************************************)
(* Exceptions: a call that can raise yields Ok(value) or Raise(message).   *)
(***************************************************************************)
Ok(v) == [ok |-> TRUE, value |-> v]
Raise(msg) == [ok |-> FALSE, error |-> msg]

\* evaluation of a name inside a function body: locals, then module globals
\* (builtins hold no skill names); an unbound name raises NameError
ModuleGlobals ==
    [np |-> "module", pd |-> "module", logging |-> "module", logger |-> "Logger",
     Dict |-> "typing", List |-> "typing", Any |-> "typing", Optional |-> "typing",
     Tuple |-> "typing", RandomForestRegressor |-> "class",
     StandardScaler |-> "class", cosine_similarity |-> "function",
     GapAnalysisModel |-> "class"]

LoadName(name, locals) ==
    IF name \in DOMAIN locals THEN Ok(locals[name])
    ELSE IF name \in DOMAIN ModuleGlobals THEN Ok(ModuleGlobals[name])
    ELSE Raise("name '" \o name \o "' is not defined")

(***************************************************************************)
(* analyze_gaps, line 94 and _generate_gap_recommendations, line 239:      *)
(* list.sort / sorted with key = priority, reverse = True (stable)         *)
(***************************************************************************)
\* where a gap goes in a list already in order: after every gap whose
\* priority is at least its own
\* mutation of InsertByPriority: a gap goes before the gaps of its own
\* priority (a sort that is not stable)
RECURSIVE InsertByPriority_Unstable(_, _)
InsertByPriority_Unstable(sorted, gap) ==
    IF sorted = <<>> THEN <<gap>>
    ELSE IF Head(sorted).priority > gap.priority
         THEN <<Head(sorted)>> \o InsertByPriority_Unstable(Tail(sorted), gap)
         ELSE <<gap>> \o sorted

RECURSIVE InsertByPriority(_, _)
InsertByPriority(sorted, gap) ==
    IF sorted = <<>> THEN <<gap>>
    ELSE IF Head(sorted).priority >= gap.priority
         THEN <<Head(sorted)>> \o InsertByPriority(Tail(sorted), gap)
         ELSE <<gap>> \o sorted

RECURSIVE SortFrom(_, _, _)
SortFrom(gaps, i, acc) ==
    IF i > Len(gaps) THEN acc
    ELSE SortFrom(gaps, i + 1, InsertByPriority(acc, gaps[i]))

SortByPriority(gaps) == SortFrom(gaps, 1, <<>>)

(***************************************************************************)
(* _calculate_coverage_percentage: an exact fraction                       *)
(***************************************************************************)
CountIn(list, other) == Cardinality({i \in 1..Len(list) : InList(list[i], other)})

\* mutation of _calculate_coverage_percentage: no special case for an
\* empty requirement list
_calculate_coverage_percentage_NoEmptyCase(user_names, job_names) ==
    [num |-> CountIn(job_names, user_names) * 100, den |-> Len(job_names)]

_calculate_coverage_percentage(user_names, job_names) ==
    IF job_names = <<>> THEN [num |-> 100, den |-> 1]
    ELSE [num |-> CountIn(job_names, user_names) * 100, den |-> Len(job_names)]

(***************************************************************************)
(* _calculate_match_score.  A vector of 100 floats is kept as the dict of  *)
(* its non-zero buckets; user values are levels (5 times the float).       *)
(***************************************************************************)
\* hash(s) % 100 under the interpreter's hash seed: equal strings share a
\* bucket, distinct strings may or may not
StrBucket(s, seed) ==
    IF seed = 0
    THEN CASE s = "python" -> 17 [] s = "sql" -> 42
           [] s = "python (senior)" -> 63 [] s = "mysql (junior)" -> 8
           [] OTHER -> 99
    ELSE CASE s = "python" -> 5 [] s = "sql" -> 71
           [] s = "python (senior)" -> 5 [] s = "mysql (junior)" -> 71
           [] OTHER -> 30

\* later assignments to a bucket overwrite earlier ones
RECURSIVE SkillVectorFrom(_, _, _, _)
SkillVectorFrom(us, seed, i, vec) ==
    IF i > Len(us) THEN vec
    ELSE LET b == StrBucket(user_skill_names(us)[i], seed)
             v == user_skill_levels(us)[i]
         IN  SkillVectorFrom(us, seed, i + 1,
                 [k \in DOMAIN vec \cup {b} |-> IF k = b THEN v ELSE vec[k]])

_create_skill_vector(us, seed) == SkillVectorFrom(us, seed, 1, EmptyDict)

_create_requirement_vector(reqs, seed) ==
    [b \in {StrBucket(lower(reqs[i]), seed) : i \in 1..Len(reqs)} |-> 1]

RECURSIVE SumOver(_, _)
SumOver(f, S) ==
    IF S = {} THEN 0
    ELSE LET x == CHOOSE y \in S : TRUE IN f[x] + SumOver(f, S \ {x})

\* cosine similarity * 100, as [num, den2]: 100 * num / sqrt(den2), and 0
\* when a vector is all zero (den2 = 0)
_calculate_match_score(us, reqs, seed) ==
    IF reqs = <<>> THEN [num |-> 1, den2 |-> 1]
    ELSE LET u == _create_skill_vector(us, seed)
             r == _create_requirement_vector(reqs, seed)
             both == DOMAIN u \cap DOMAIN r
             dot == SumOver([b \in both |-> u[b] * r[b]], both)
             uu == SumOver([b \in DOMAIN u |-> u[b] * u[b]], DOMAIN u)
             rr == SumOver([b \in DOMAIN r |-> r[b] * r[b]], DOMAIN r)
         IN  [num |-> dot, den2 |-> uu * rr]


(***************************************************************************)
(* _generate_gap_recommendations and what it calls                         *)
(***************************************************************************)
_get_skill_development_actions(skill_name, gap) ==
    (IF IsMissing(gap)
     THEN <<"Start learning " \o skill_name \o " from scratch",
            "Take an introductory course in " \o skill_name>>
     ELSE <<"Improve " \o skill_name \o " from level "
                \o ToString(gap.current_level) \o " to "
                \o ToString(gap.required_level),
            "Practice " \o skill_name \o " in real-world projects">>)
    \o <<"Seek mentorship in " \o skill_name,
         "Join " \o skill_name \o " communities and forums",
         "Work on " \o skill_name \o " projects in your current role">>

_get_learning_resources(skill_name, md) ==
    << [type |-> "course", name |-> "Complete " \o skill_name \o " Course",
        provider |-> "SkillSphere Learning", duration |-> "8-12 weeks",
        level |-> "Beginner to Advanced"],
       [type |-> "book", name |-> "The Complete Guide to " \o skill_name,
        provider |-> "Technical Books", duration |-> "Self-paced",
        level |-> "Comprehensive"],
       [type |-> "certification",
        name |-> skill_name \o " Professional Certification",
        provider |-> "Industry Standard", duration |-> "3-6 months",
        level |-> "Professional"],
       [type |-> "practice", name |-> skill_name \o " Practice Projects",
        provider |-> "SkillSphere Labs", duration |-> "Ongoing",
        level |-> "Hands-on"] >>

_get_level_criteria(skill_name, level) ==
    CASE level = 1 -> <<"Understand basic " \o skill_name \o " concepts",
                        "Complete introductory " \o skill_name \o " tutorials",
                        "Demonstrate basic " \o skill_name \o " knowledge">>
      [] level = 2 -> <<"Apply " \o skill_name \o " in simple projects",
                        "Understand intermediate " \o skill_name \o " concepts",
                        "Complete " \o skill_name \o " exercises independently">>
      [] level = 3 -> <<"Use " \o skill_name \o " in complex projects",
                        "Teach " \o skill_name \o " to others",
                        "Contribute to " \o skill_name \o " discussions and forums">>
      [] level = 4 -> <<"Lead " \o skill_name \o " projects",
                        "Design " \o skill_name \o " solutions",
                        "Mentor others in " \o skill_name>>
      [] level = 5 -> <<"Expert-level " \o skill_name \o " knowledge",
                        "Contribute to " \o skill_name \o " standards and best practices",
                        "Recognized as " \o skill_name \o " expert in the industry">>
      [] OTHER -> <<>>

\* the names bound in the body of _create_development_milestones when the
\* f-string of line 325 is evaluated
MilestoneLocals(gap, level) ==
    [self |-> "GapAnalysisModel", gap |-> gap, milestones |-> "list",
     current_level |-> gap.current_level, target_level |-> gap.required_level,
     total_time |-> gap.estimated_time, level |-> level]

\* one pass of the loop body, lines 323-328
Milestone(gap, level) ==
    LET name == LoadName("skill_name", MilestoneLocals(gap, level))
    IN  IF ~name.ok THEN name
        ELSE Ok([level |-> level,
                 description |-> "Reach " \o name.value \o " level " \o ToString(level),
                 estimated_time |-> [num |-> gap.estimated_time,
                                     den |-> gap.required_level - gap.current_level],
                 criteria |-> _get_level_criteria(gap.skill_name, level)])

\* for level in range(current_level + 1, target_level + 1)
RECURSIVE MilestoneLoop(_, _, _)
MilestoneLoop(gap, level, acc) ==
    IF level >= gap.required_level + 1 THEN Ok(acc)
    ELSE LET m == Milestone(gap, level)
         IN  IF ~m.ok THEN m ELSE MilestoneLoop(gap, level + 1, Append(acc, m.value))

_create_development_milestones(gap) == MilestoneLoop(gap, gap.current_level + 1, <<>>)

\* the dict of lines 244-253
Recommendation(gap, md) ==
    LET milestones == _create_development_milestones(gap)
    IN  IF ~milestones.ok THEN milestones
        ELSE Ok([skill_name |-> gap.skill_name,
                 priority |-> gap.priority,
                 current_level |-> gap.current_level,
                 target_level |-> gap.required_level,
                 estimated_time |-> gap.estimated_time,
                 actions |-> _get_skill_development_actions(gap.skill_name, gap),
                 resources |-> _get_learning_resources(gap.skill_name, md),
                 milestones |-> milestones.value])

TopN == 5

RECURSIVE RecommendationLoop(_, _, _, _)
RecommendationLoop(sorted_gaps, md, i, acc) ==
    IF i > Min(TopN, Len(sorted_gaps)) THEN Ok(acc)
    ELSE LET r == Recommendation(sorted_gaps[i], md)
         IN  IF ~r.ok THEN r
             ELSE RecommendationLoop(sorted_gaps, md, i + 1, Append(acc, r.value))

_generate_gap_recommendations(gaps, md) ==
    RecommendationLoop(SortByPriority(gaps), md, 1, <<>>)

(***************************************************************************)
(* _create_development_timeline                                            *)
(***************************************************************************)
\* 0.8 and 0.5 in hundredths; months per phase
HighThreshold == 80
MediumThreshold == 50
PhaseDuration == 6

RECURSIVE SelectGaps(_, _, _)
SelectGaps(gaps, lo, hi) ==
    IF gaps = <<>> THEN <<>>
    ELSE (IF lo <= Head(gaps).priority /\ Head(gaps).priority < hi
          THEN <<Head(gaps)>> ELSE <<>>) \o SelectGaps(Tail(gaps), lo, hi)

\* priorities are clamped to 0..100: 101 and -1 stand for no bound
high_priority(gaps) == SelectGaps(gaps, HighThreshold, 101)
\* mutation of medium_priority: the lower bound 0.5 left out
medium_priority_NoLowerBound(gaps) == SelectGaps(gaps, -1, HighThreshold)

medium_priority(gaps) == SelectGaps(gaps, MediumThreshold, HighThreshold)
low_priority(gaps) == SelectGaps(gaps, -1, MediumThreshold)

\* mutation of Phase: every phase starts at month 0
Phase_FromZero(name, skills, current_month) ==
    [name |-> name, duration |-> PhaseDuration, skills |-> skills,
     start_month |-> 0, end_month |-> PhaseDuration]

Phase(name, skills, current_month) ==
    [name |-> name, duration |-> PhaseDuration, skills |-> skills,
     start_month |-> current_month, end_month |-> current_month + PhaseDuration]

_create_development_timeline(gaps) ==
    LET hi == high_priority(gaps)
        me == medium_priority(gaps)
        lo == low_priority(gaps)
        ph1 == IF hi # <<>>
               THEN <<Phase("Critical Skills Development", hi, 0)>> ELSE <<>>
        m1 == PhaseDuration * Len(ph1)
        ph2 == IF me # <<>>
               THEN Append(ph1, Phase("Advanced Skills Development", me, m1))
               ELSE ph1
        m2 == PhaseDuration * Len(ph2)
        ph3 == IF lo # <<>>
               THEN Append(ph2, Phase("Specialized Skills Development", lo, m2))
               ELSE ph2
    IN  [phases |-> ph3,
         total_duration |-> PhaseDuration * Len(ph3),
         critical_path |-> [i \in 1..Len(hi) |-> hi[i].skill_name]]

(***************************************************************************)
(* analyze_gaps: the dict returned at lines 101-112, or, when a step       *)
(* raised, the one of lines 116-126                                        *)
(***************************************************************************)
EstimatedTimes(gaps) == [i \in 1..Len(gaps) |-> gaps[i].estimated_time]

\* mutation of Report: the except branch hands back the gaps it had computed
Report_KeepsGaps(us, reqs, md, seed, sorted) ==
    LET recs == _generate_gap_recommendations(sorted, md)
    IN  IF recs.ok
        THEN [gaps |-> sorted,
              summary |->
                  [total_gaps |-> Len(sorted),
                   high_priority_gaps |-> Len(high_priority(sorted)),
                   total_development_time |-> SumSeq(EstimatedTimes(sorted)),
                   coverage_percentage |->
                       _calculate_coverage_percentage(user_skill_names(us),
                                                      job_skill_names(reqs)),
                   match_score |-> _calculate_match_score(us, reqs, seed)],
              recommendations |-> recs.value,
              timeline |-> _create_development_timeline(sorted)]
        ELSE [error |-> recs.error,
              gaps |-> sorted,
              summary |->
                  [total_gaps |-> Len(sorted),
                   high_priority_gaps |-> 0,
                   total_development_time |-> 0,
                   coverage_percentage |-> [num |-> 0, den |-> 1],
                   match_score |-> [num |-> 0, den2 |-> 0]]]

Report(us, reqs, md, seed, sorted) ==
    LET recs == _generate_gap_recommendations(sorted, md)
    IN  IF recs.ok
        THEN [gaps |-> sorted,
              summary |->
                  [total_gaps |-> Len(sorted),
                   high_priority_gaps |-> Len(high_priority(sorted)),
                   total_development_time |-> SumSeq(EstimatedTimes(sorted)),
                   coverage_percentage |->
                       _calculate_coverage_percentage(user_skill_names(us),
                                                      job_skill_names(reqs)),
                   match_score |-> _calculate_match_score(us, reqs, seed)],
              recommendations |-> recs.value,
              timeline |-> _create_development_timeline(sorted)]
        ELSE [error |-> recs.error,
              gaps |-> <<>>,
              summary |->
                  [total_gaps |-> 0,
                   high_priority_gaps |-> 0,
                   total_development_time |-> 0,
                   coverage_percentage |-> [num |-> 0, den |-> 1],
                   match_score |-> [num |-> 0, den2 |-> 0]]]

(***************************************************************************)
(* The state machine: one call of analyze_gaps on arguments drawn in Init. *)
(***************************************************************************)
HashSeeds == {0, 1}

Init ==
    /\ user_skills \in SeqsUpTo(SkillDicts, MaxSkills)
    /\ job_requirements \in SeqsUpTo(ReqStrings, MaxReqs)
    /\ market_data \in MarketDatas
    /\ hash_seed \in HashSeeds
    /\ np_random \in 1..Len(NormalStream)
    /\ pc = "called"
    /\ emitted_gaps = <<>>
    /\ skill_gaps = <<>>
    /\ result = EmptyDict
    /\ call = EmptyDict
    /\ ret = EmptyDict
    /\ model_manager = ModelManager
    /\ now = 0

analyze_gaps ==
    /\ pc = "called"
    /\ LET computed == ComputeGaps(user_skills, job_requirements, market_data,
                                   np_random)
           sorted == SortByPriority(computed.gaps)
       IN  /\ emitted_gaps' = computed.gaps
           /\ np_random' = computed.pos
           /\ skill_gaps' = sorted
           /\ result' = Report(user_skills, job_requirements, market_data,
                               hash_seed, sorted)
    /\ pc' = "returned"
    /\ UNCHANGED <<model_manager, now,
                   user_skills, job_requirements, market_data, hash_seed,
                   call, ret>>

Next == analyze_gaps

Spec == Init /\ [][Next]_vars


(***************************************************************************)
(* Vocabulary of the properties.                                           *)
(***************************************************************************)
Returned == pc = "returned"
HasError == "error" \in DOMAIN result
GapIndices == 1..Len(emitted_gaps)
ReqIndices == 1..Len(job_requirements)

\* a fraction [num, den] as a percentage
IsPercent(c, n) == c.den > 0 /\ c.num = n * c.den
\* a match score [num, den2] equal to 100, that is cosine 1
IsFullMatch(m) == m.num > 0 /\ m.num * m.num = m.den2

\* does the user list the skill (lower-cased name), and at which level
\* (the first entry of that name; 0 when there is none)
UserHas(name) == InList(name, user_skill_names(user_skills))
UserLevel(name) ==
    IF UserHas(name)
    THEN LET i == CHOOSE k \in 1..Len(user_skills) :
                      /\ user_skill_names(user_skills)[k] = name
                      /\ \A j \in 1..(k - 1) : user_skill_names(user_skills)[j] # name
         IN  user_skill_levels(user_skills)[i]
    ELSE 0

\* the skill a requirement string names: the lower-cased text before a
\* parenthesised level qualifier ("Python (Senior)" names python)
SkillOfRequirement(req) ==
    LET cut == {i \in 1..(Len(req) - 1) : SubSeq(req, i, i + 1) = " ("}
    IN  IF cut = {} THEN lower(req)
        ELSE LET c == CHOOSE i \in cut : \A j \in cut : i <= j
             IN  LowerOf(SubSeq(req, 1, c - 1))
SkillTable == {<<r, SkillOfRequirement(r)>> : r \in ReqStrings}
ReqSkill(req) == (CHOOSE p \in SkillTable : p[1] = req)[2]

HasLevelKeyword(req_lower) == \E k \in LevelKeywords : Contains(k, req_lower)


(***************************************************************************)
(* C1.  Called with no user skills and a non-empty requirement list,       *)
(* analyze_gaps returns a report without an error entry whose gaps list    *)
(* holds one gap per requirement, each with is_missing true,               *)
(* current_level 0 and gap_size = required_level.                          *)
(* Violated: the report is the error dict of lines 116-126, because        *)
(* _create_development_milestones raises NameError on its first milestone. *)
(***************************************************************************)
C1_EmptyUserSkillsReport ==
    (Returned /\ user_skills = <<>> /\ job_requirements # <<>>) =>
        /\ ~HasError
        /\ Len(result.gaps) = Len(job_requirements)
        /\ \A i \in 1..Len(result.gaps) :
              /\ IsMissing(result.gaps[i])
              /\ result.gaps[i].current_level = 0
              /\ result.gaps[i].gap_size = result.gaps[i].required_level

(***************************************************************************)
(* C2.  Every gap record emitted by the gap computation has                *)
(* gap_size = required_level - current_level and gap_size >= 0, for user   *)
(* levels in 1..5, any requirement list and any market data.               *)
(***************************************************************************)
C2_GapSign ==
    Returned =>
        \A i \in GapIndices :
            /\ emitted_gaps[i].gap_size
                   = emitted_gaps[i].required_level - emitted_gaps[i].current_level
            /\ emitted_gaps[i].gap_size >= 0

\* a call that emitted a gap for a skill the user has and a gap for a skill
\* the user lacks, under market data whose skill_levels hold a negative level
C2_Witness ==
    /\ Returned
    /\ \E i, j \in GapIndices :
          /\ emitted_gaps[i].current_level >= 1
          /\ emitted_gaps[j].current_level = 0
    /\ \E k \in DOMAIN DictGet(market_data, "skill_levels", EmptyDict) :
          market_data.skill_levels[k] < 0

(***************************************************************************)
(* C3.  For every emitted gap record, is_missing (read as the code reads   *)
(* it, gap.get('is_missing', False)) is true iff current_level = 0; a gap  *)
(* for a skill the user has is not flagged missing and has                 *)
(* current_level >= 1.                                                     *)
(***************************************************************************)
C3_MissingIffLevelZero ==
    Returned =>
        \A i \in GapIndices :
            /\ IsMissing(emitted_gaps[i]) <=> (emitted_gaps[i].current_level = 0)
            /\ UserHas(emitted_gaps[i].skill_name) =>
                  /\ ~IsMissing(emitted_gaps[i])
                  /\ emitted_gaps[i].current_level >= 1

\* both kinds of gap in one call: one flagged missing, one for a user skill
C3_Witness ==
    /\ Returned
    /\ \E i, j \in GapIndices :
          /\ IsMissing(emitted_gaps[i])
          /\ UserHas(emitted_gaps[j].skill_name)
          /\ ~IsMissing(emitted_gaps[j])


(***************************************************************************)
(* C4.  The gap computation emits one gap record for each requirement      *)
(* whose required level exceeds the user's level for that skill (0 when    *)
(* the user lacks it) and none for a requirement whose required level is   *)
(* at most the user's level.  Read generously: a needed record may carry   *)
(* the skill's name or the whole lower-cased requirement string, and a     *)
(* repeated requirement may share its record.                              *)
(* Violated: requirements are matched to user skills by equality of the    *)
(* whole lower-cased string, so "Python (Senior)" is a gap for a user      *)
(* with python at level 5.                                                 *)
(***************************************************************************)
RecordsFor(i) ==
    {k \in GapIndices :
        emitted_gaps[k].skill_name
            \in {ReqSkill(job_requirements[i]), lower(job_requirements[i])}}

C4_OneGapPerUnmetRequirement ==
    Returned =>
        \A i \in ReqIndices :
            IF UserLevel(ReqSkill(job_requirements[i]))
                   < KeywordLevel(lower(job_requirements[i]))
            THEN /\ RecordsFor(i) # {}
                 /\ Cardinality(RecordsFor(i))
                        <= Cardinality({j \in ReqIndices :
                               ReqSkill(job_requirements[j])
                                   = ReqSkill(job_requirements[i])})
            ELSE RecordsFor(i) = {}

(***************************************************************************)
(* C5.  When a requirement names a skill with a level qualifier            *)
(* ("Python (Senior)") and the user has that skill at a level L below the  *)
(* qualified one, a gap is reported for the skill with current_level L,    *)
(* required_level 5, gap_size 5 - L, not flagged missing, and the          *)
(* requirement is not reported as a missing skill.  Stated on the gap      *)
(* list as computed, before anything can discard it.                       *)
(* Violated: the only record is a missing-skill gap named                  *)
(* "python (senior)" with current_level 0 and gap_size 5.                  *)
(***************************************************************************)
C5_QualifiedRequirementGap ==
    (/\ Returned
     /\ InList("Python (Senior)", job_requirements)
     /\ UserHas("python")
     /\ UserLevel("python") < 5) =>
        /\ \E k \in GapIndices :
              /\ emitted_gaps[k].skill_name = "python"
              /\ emitted_gaps[k].current_level = UserLevel("python")
              /\ emitted_gaps[k].required_level = 5
              /\ emitted_gaps[k].gap_size = 5 - UserLevel("python")
              /\ ~IsMissing(emitted_gaps[k])
        /\ \A k \in GapIndices :
              emitted_gaps[k].skill_name \in {"python", "python (senior)"}
                  => ~IsMissing(emitted_gaps[k])

(***************************************************************************)
(* C6.  A requirement without a level keyword that the user lacks yields   *)
(* a gap flagged missing whose required_level is the market default:       *)
(* market_data.skill_levels[skill] when supplied, otherwise 3.             *)
(* Violated as stated: "SQL" alone gets required_level 4.                  *)
(***************************************************************************)
PlainMissing(i) ==
    /\ ~HasLevelKeyword(lower(job_requirements[i]))
    /\ ~UserHas(lower(job_requirements[i]))

C6_MarketDefaultLevel ==
    Returned =>
        \A i \in ReqIndices :
            PlainMissing(i) =>
                \E k \in GapIndices :
                    /\ emitted_gaps[k].skill_name = lower(job_requirements[i])
                    /\ IsMissing(emitted_gaps[k])
                    /\ emitted_gaps[k].required_level
                           = MarketLevel(lower(job_requirements[i]), market_data)

(***************************************************************************)
(* C6, amended.  Such a requirement makes the gap computation emit a gap   *)
(* flagged missing whose required_level never comes from the market data:  *)
(* it is 4, unless an earlier requirement string contains the skill name   *)
(* as a substring, and then it is the keyword level of the first such      *)
(* string.                                                                 *)
(***************************************************************************)
EarlierContaining(i) ==
    {j \in 1..(i - 1) :
        Contains(lower(job_requirements[i]), lower(job_requirements[j]))}

ListedLevel(i) ==
    IF EarlierContaining(i) = {} THEN 4
    ELSE LET j == CHOOSE x \in EarlierContaining(i) :
                      \A y \in EarlierContaining(i) : x <= y
         IN  KeywordLevel(lower(job_requirements[j]))

C6_ListedRequirementLevel ==
    Returned =>
        \A i \in ReqIndices :
            PlainMissing(i) =>
                /\ \E k \in GapIndices :
                      emitted_gaps[k].skill_name = lower(job_requirements[i])
                /\ \A k \in GapIndices :
                      emitted_gaps[k].skill_name = lower(job_requirements[i]) =>
                          /\ IsMissing(emitted_gaps[k])
                          /\ emitted_gaps[k].required_level = ListedLevel(i)

\* "SQL" required, absent from the user's skills, the market supplying a
\* level for sql other than 4, and the gap emitted at level 4
C6_Witness ==
    /\ Returned
    /\ \E i \in ReqIndices :
          /\ job_requirements[i] = "SQL"
          /\ PlainMissing(i)
          /\ "sql" \in DOMAIN DictGet(market_data, "skill_levels", EmptyDict)
          /\ MarketLevel("sql", market_data) # 4
          /\ \E k \in GapIndices :
                /\ emitted_gaps[k].skill_name = "sql"
                /\ emitted_gaps[k].required_level = 4

(***************************************************************************)
(* C7.  With an empty requirement list analyze_gaps returns, for any user  *)
(* skills and market data, a report without error entry: gaps = [],        *)
(* coverage_percentage = 100, match_score = 100, recommendations = [],     *)
(* and a timeline with no phases and total_duration 0.                     *)
(***************************************************************************)
C7_NoRequirements ==
    (Returned /\ job_requirements = <<>>) =>
        /\ ~HasError
        /\ result.gaps = <<>>
        /\ IsPercent(result.summary.coverage_percentage, 100)
        /\ IsFullMatch(result.summary.match_score)
        /\ result.recommendations = <<>>
        /\ result.timeline.phases = <<>>
        /\ result.timeline.total_duration = 0

\* a call without requirements for a user with two skills, with market data
C7_Witness ==
    /\ Returned
    /\ job_requirements = <<>>
    /\ Len(user_skills) = 2
    /\ market_data # EmptyDict

(***************************************************************************)
(* C8.  In every result of analyze_gaps coverage_percentage is in          *)
(* [0,100], is 100 when there are no requirements, and otherwise is 100    *)
(* times the fraction of requirements whose skill the user has.            *)
(* Violated: a call whose milestones raise returns the error dict, whose   *)
(* coverage_percentage is 0 whatever the user covers.                      *)
(***************************************************************************)
C8_CoverageValue ==
    Returned =>
        LET c == result.summary.coverage_percentage
            n == Len(job_requirements)
            covered == Cardinality({i \in ReqIndices :
                           UserHas(lower(job_requirements[i]))})
        IN  /\ c.den > 0 /\ 0 <= c.num /\ c.num <= 100 * c.den
            /\ n = 0 => IsPercent(c, 100)
            /\ n > 0 => c.num * n = 100 * covered * c.den

(***************************************************************************)
(* C9.  The priority of every gap is                                       *)
(* clamp(0.5 + 0.3 * market_demand + 0.2 * salary_impact, 0, 1), each      *)
(* looked up by skill name and 0.5 when absent, so it lies in [0,1] even   *)
(* for market values outside [0,1].  (Hundredths; market values tenths.)   *)
(***************************************************************************)
MarketValue(field, skill_name) ==
    IF field \in DOMAIN market_data /\ skill_name \in DOMAIN market_data[field]
    THEN market_data[field][skill_name] ELSE 5

C9_PriorityFormula ==
    Returned =>
        \A k \in GapIndices :
            LET raw == 50 + 3 * MarketValue("demand", emitted_gaps[k].skill_name)
                          + 2 * MarketValue("salary_impact", emitted_gaps[k].skill_name)
                p == emitted_gaps[k].priority
            IN  /\ p = (IF raw < 0 THEN 0 ELSE IF raw > 100 THEN 100 ELSE raw)
                /\ 0 <= p /\ p <= 100

\* one call with a gap whose unclamped score is above 1 and a gap whose
\* unclamped score is below 0
C9_Witness ==
    /\ Returned
    /\ \E i, j \in GapIndices :
          /\ 50 + 3 * MarketValue("demand", emitted_gaps[i].skill_name)
                + 2 * MarketValue("salary_impact", emitted_gaps[i].skill_name) > 100
          /\ emitted_gaps[i].priority = 100
          /\ 50 + 3 * MarketValue("demand", emitted_gaps[j].skill_name)
                + 2 * MarketValue("salary_impact", emitted_gaps[j].skill_name) < 0
          /\ emitted_gaps[j].priority = 0

(***************************************************************************)
(* C10.  The gaps list analyze_gaps returns is in non-increasing priority  *)
(* order and gaps of equal priority keep the order in which the gap        *)
(* computation emitted them.  Stated on the list as sorted at line 94,     *)
(* which is the list a report without error entry returns.                 *)
(***************************************************************************)
RECURSIVE WithPriority(_, _)
WithPriority(gaps, p) ==
    IF gaps = <<>> THEN <<>>
    ELSE (IF Head(gaps).priority = p THEN <<Head(gaps)>> ELSE <<>>)
             \o WithPriority(Tail(gaps), p)

C10_SortedStable ==
    Returned =>
        /\ Len(skill_gaps) = Len(emitted_gaps)
        /\ \A i \in 1..(Len(skill_gaps) - 1) :
              skill_gaps[i].priority >= skill_gaps[i + 1].priority
        /\ \A k \in GapIndices :
              WithPriority(skill_gaps, emitted_gaps[k].priority)
                  = WithPriority(emitted_gaps, emitted_gaps[k].priority)
        /\ ~HasError => result.gaps = skill_gaps

\* the sort moved a gap, and two different gaps of equal priority are there
C10_Witness ==
    /\ Returned
    /\ skill_gaps # emitted_gaps
    /\ \E i, j \in GapIndices :
          /\ i < j
          /\ emitted_gaps[i].priority = emitted_gaps[j].priority
          /\ emitted_gaps[i] # emitted_gaps[j]

(***************************************************************************)
(* C11.  The recommendation generator returns min(5, number of gaps)       *)
(* recommendations, one per gap, and they are those of the first five      *)
(* gaps of the priority-sorted list, in that order.                        *)
(* Violated: for any gap the generator builds milestones, whose f-string   *)
(* raises (line 325), so the generator returns nothing for a non-empty     *)
(* list and the call ends in the handler of line 114.                      *)
(***************************************************************************)
C11_TopFiveRecommendations ==
    Returned =>
        /\ ~HasError
        /\ Len(result.recommendations) = Min(TopN, Len(skill_gaps))
        /\ \A i \in 1..Len(result.recommendations) :
              /\ result.recommendations[i].skill_name = skill_gaps[i].skill_name
              /\ result.recommendations[i].priority = skill_gaps[i].priority
              /\ result.recommendations[i].current_level
                     = skill_gaps[i].current_level
              /\ result.recommendations[i].target_level
                     = skill_gaps[i].required_level

(***************************************************************************)
(* C14.  Every recommendation carries one milestone per integer level from *)
(* current_level + 1 up to required_level, in ascending order, each        *)
(* description naming the skill of that same gap, and building the         *)
(* milestones does not fail.                                               *)
(* Violated: the description reads the name skill_name, which is bound     *)
(* neither in _create_development_milestones nor in the module (the only   *)
(* local holding the name is gap['skill_name']), so the first level step   *)
(* of the first gap raises NameError.                                      *)
(***************************************************************************)
MilestoneLevels(rec) ==
    [k \in 1..Len(rec.milestones) |-> rec.milestones[k].level]

C14_MilestonesPerLevel ==
    Returned =>
        /\ HasError => result.error # "name 'skill_name' is not defined"
        /\ ~HasError =>
              \A i \in 1..Len(result.recommendations) :
                  LET rec == result.recommendations[i]
                  IN  /\ MilestoneLevels(rec)
                             = [k \in 1..(rec.target_level - rec.current_level)
                                    |-> rec.current_level + k]
                      /\ \A k \in 1..Len(rec.milestones) :
                            /\ rec.milestones[k].description
                                   = "Reach " \o rec.skill_name \o " level "
                                         \o ToString(rec.milestones[k].level)
                            /\ rec.milestones[k].criteria
                                   = _get_level_criteria(rec.skill_name,
                                                         rec.milestones[k].level)

(***************************************************************************)
(* C16.  For valid user skills (name and level 1..5), any requirement      *)
(* strings and any or no market data, analyze_gaps returns a result        *)
(* without an error entry that holds the gaps together with summary,       *)
(* recommendations and timeline.                                           *)
(* Violated: whenever the inputs leave at least one gap the call returns   *)
(* the dict of lines 116-126: an error entry, an empty gaps list, and      *)
(* neither recommendations nor timeline.                                   *)
(***************************************************************************)
ValidSkill(skill) ==
    /\ "name" \in DOMAIN skill
    /\ "level" \in DOMAIN skill
    /\ skill.level \in 1..5

C16_NoErrorResult ==
    (Returned /\ \A i \in 1..Len(user_skills) : ValidSkill(user_skills[i])) =>
        /\ "error" \notin DOMAIN result
        /\ {"gaps", "summary", "recommendations", "timeline"} \subseteq DOMAIN result
        /\ result.gaps = skill_gaps
        /\ result.summary.total_gaps = Len(skill_gaps)

(***************************************************************************)
(* _create_development_timeline called on its own.  Its argument is a gap  *)
(* list as analyze_gaps passes it at line 109: built by the gap            *)
(* computation and sorted at line 94.  The market data add one dict whose  *)
(* priorities fall on the band limits 0.8 (sql) and 0.5 (python).          *)
(***************************************************************************)
MaxPlanReqs == 4        \* longest requirement list behind a timeline argument

BandMarketData ==
    [demand |-> ("mysql (junior)" :> -20) @@ [sql |-> 10, python |-> 0],
     salary_impact |-> [sql |-> 0, python |-> 0]]

\* the sorted gap lists of calls with at most n requirements
TimelineArguments(n) ==
    {SortByPriority(ComputeGaps(us, reqs, md, 1).gaps) :
        us \in SeqsUpTo(SkillDicts, 1),
        reqs \in SeqsUpTo(ReqStrings, n),
        md \in MarketDatas \cup {BandMarketData}}

InitTimeline ==
    /\ user_skills = <<>>
    /\ job_requirements = <<>>
    /\ market_data = EmptyDict
    /\ hash_seed = 0
    /\ np_random = 1
    /\ pc = "called"
    /\ emitted_gaps = <<>>
    /\ skill_gaps = <<>>
    /\ result = EmptyDict
    /\ call \in {[skill_gaps |-> gaps] : gaps \in TimelineArguments(MaxPlanReqs)}
    /\ ret = EmptyDict
    /\ model_manager = ModelManager
    /\ now = 0

create_development_timeline ==
    /\ pc = "called"
    /\ ret' = _create_development_timeline(call.skill_gaps)
    /\ pc' = "returned"
    /\ UNCHANGED <<model_manager, now,
                   user_skills, job_requirements, market_data, hash_seed,
                   np_random, emitted_gaps, skill_gaps, result, call>>

NextTimeline == create_development_timeline

SpecTimeline == InitTimeline /\ [][NextTimeline]_vars

(***************************************************************************)
(* C12.  In the timeline built from a priority-sorted gap list the phases  *)
(* are contiguous from month 0: the first starts at 0, each ends where the *)
(* next starts, end_month - start_month is the phase's duration, 6, and    *)
(* total_duration is the sum of the durations, that is the last            *)
(* end_month, 0 without phases.                                            *)
(***************************************************************************)
PhaseDurations(phases) == [i \in 1..Len(phases) |-> phases[i].duration]

C12_PhasesContiguous ==
    Returned =>
        LET phases == ret.phases
        IN  /\ phases # <<>> => phases[1].start_month = 0
            /\ \A i \in 1..(Len(phases) - 1) :
                  phases[i].end_month = phases[i + 1].start_month
            /\ \A i \in 1..Len(phases) :
                  /\ phases[i].duration = 6
                  /\ phases[i].end_month - phases[i].start_month
                         = phases[i].duration
            /\ ret.total_duration = SumSeq(PhaseDurations(phases))
            /\ ret.total_duration
                   = IF phases = <<>> THEN 0 ELSE phases[Len(phases)].end_month

\* a timeline of three phases, and the one of the empty gap list is reached too
C12_Witness ==
    /\ Returned
    /\ Len(ret.phases) = 3
    /\ ret.total_duration = 18

(***************************************************************************)
(* C13.  The timeline partitions the sorted gaps by priority band: the     *)
(* high phase holds exactly the gaps of priority >= 0.8, the medium phase  *)
(* those with 0.5 <= priority < 0.8, the low phase those below 0.5, each   *)
(* in the order of the sorted list; a phase exists only for a non-empty    *)
(* band, and the phases come in the order high, medium, low.               *)
(***************************************************************************)
Bands == {"high", "medium", "low"}

BandOf(priority) ==
    IF priority >= 80 THEN "high" ELSE IF priority >= 50 THEN "medium" ELSE "low"

PhaseName(band) ==
    CASE band = "high" -> "Critical Skills Development"
      [] band = "medium" -> "Advanced Skills Development"
      [] band = "low" -> "Specialized Skills Development"

BandRank(name) ==
    CASE name = PhaseName("high") -> 1
      [] name = PhaseName("medium") -> 2
      [] name = PhaseName("low") -> 3
      [] OTHER -> 0

\* the gaps of one band, in the order of the list
InBand(gaps, band) ==
    LET Test(gap) == BandOf(gap.priority) = band
    IN  SelectSeq(gaps, Test)

C13_BandPartition ==
    Returned =>
        LET phases == ret.phases
            gaps == call.skill_gaps
        IN  /\ \A i \in 1..Len(phases) : BandRank(phases[i].name) > 0
            /\ \A i, j \in 1..Len(phases) :
                  i < j => BandRank(phases[i].name) < BandRank(phases[j].name)
            /\ \A band \in Bands :
                  LET named == {i \in 1..Len(phases) :
                                    phases[i].name = PhaseName(band)}
                  IN  IF InBand(gaps, band) = <<>> THEN named = {}
                      ELSE /\ Cardinality(named) = 1
                           /\ \A i \in named :
                                 phases[i].skills = InBand(gaps, band)
            /\ SumSeq([i \in 1..Len(phases) |-> Len(phases[i].skills)])
                   = Len(gaps)

\* three phases, the medium one with two gaps, with gaps on both band limits
C13_Witness ==
    /\ Returned
    /\ Len(ret.phases) = 3
    /\ Len(ret.phases[2].skills) = 2
    /\ \E i \in 1..Len(call.skill_gaps) : call.skill_gaps[i].priority = 80
    /\ \E i \in 1..Len(call.skill_gaps) : call.skill_gaps[i].priority = 50

(***************************************************************************)
(* C17.  Two calls whose user skill lists are permutations of each other   *)
(* and whose requirement lists are permutations of each other, with the    *)
(* same market data, emit the same set of gap records (skill_name,         *)
(* current_level, required_level, gap_size, is_missing).                   *)
(* Violated: the required level of a skill is taken from the first         *)
(* requirement string that contains its name as a substring, so            *)
(* ['MySQL (Junior)', 'SQL'] asks level 2 of sql and                       *)
(* ['SQL', 'MySQL (Junior)'] asks level 4.                                 *)
(***************************************************************************)
PermutationsOf(list) ==
    LET n == Len(list)
        orders == {f \in [1..n -> 1..n] : \A i, j \in 1..n : f[i] = f[j] => i = j}
    IN  {[i \in 1..n |-> list[f[i]]] : f \in orders}

\* the fields of a gap record that do not depend on the jitter
GapRecord(gap) ==
    [skill_name |-> gap.skill_name,
     current_level |-> gap.current_level,
     required_level |-> gap.required_level,
     gap_size |-> gap.gap_size,
     is_missing |-> IsMissing(gap)]

GapRecords(gaps) == {GapRecord(gaps[i]) : i \in 1..Len(gaps)}

C17_OrderIndependentGapSet ==
    Returned =>
        \A us \in PermutationsOf(user_skills),
           reqs \in PermutationsOf(job_requirements) :
            GapRecords(ComputeGaps(us, reqs, market_data, 1).gaps)
                = GapRecords(emitted_gaps)

(***************************************************************************)
(* C20.  The level required for a requirement string is the one of that    *)
(* string's own level keywords, lower-cased: 5 for senior or expert, else  *)
(* 3 for intermediate or mid, else 2 for junior or entry, else 4; it does  *)
(* not depend on the other strings of the list or on their order.          *)
(* Violated: the level comes from the first string of the list that        *)
(* contains the lower-cased requirement as a substring, which may be an    *)
(* earlier, longer requirement ('sql' inside 'mysql (junior)').            *)
(***************************************************************************)
OwnKeywordLevel(req_lower) ==
    IF Contains("senior", req_lower) \/ Contains("expert", req_lower) THEN 5
    ELSE IF Contains("intermediate", req_lower) \/ Contains("mid", req_lower) THEN 3
    ELSE IF Contains("junior", req_lower) \/ Contains("entry", req_lower) THEN 2
    ELSE 4

C20_LevelFromOwnKeywords ==
    Returned =>
        \A i \in ReqIndices :
            /\ _get_required_level(lower(job_requirements[i]), job_requirements,
                                   market_data)
                   = OwnKeywordLevel(lower(job_requirements[i]))
            /\ \A k \in GapIndices :
                  emitted_gaps[k].skill_name = lower(job_requirements[i])
                      => emitted_gaps[k].required_level
                             = OwnKeywordLevel(lower(job_requirements[i]))

(***************************************************************************)
(* SkillsPreprocessor (ai-services/utils/preprocessing.py): str.strip,     *)
(* str.title, the synonym table and normalize_skill_name.                  *)
(***************************************************************************)
\* the ASCII whitespace written with an escape; str.strip() removes it
Whitespace == " \t\n\r\f"

IsSpace(c) == \E i \in 1..Len(Whitespace) : SubSeq(Whitespace, i, i) = c

IsLetter(c) ==
    \/ \E i \in 1..Len(UpperLetters) : SubSeq(UpperLetters, i, i) = c
    \/ \E i \in 1..Len(LowerLetters) : SubSeq(LowerLetters, i, i) = c

\* one character of str.upper()
UpperChar(c) ==
    IF \E i \in 1..Len(LowerLetters) : SubSeq(LowerLetters, i, i) = c
    THEN LET i == CHOOSE j \in 1..Len(LowerLetters) : SubSeq(LowerLetters, j, j) = c
         IN  SubSeq(UpperLetters, i, i)
    ELSE c

\* mutation of strip: nothing is removed
strip_Nothing(s) == s

\* str.strip(): leading and trailing whitespace removed
strip(s) ==
    LET kept == {i \in 1..Len(s) : ~IsSpace(SubSeq(s, i, i))}
    IN  IF kept = {} THEN ""
        ELSE LET first == CHOOSE i \in kept : \A j \in kept : i <= j
                 last == CHOOSE i \in kept : \A j \in kept : j <= i
             IN  SubSeq(s, first, last)

\* str.title(): a letter that follows a letter is lower-cased, any other
\* letter is upper-cased, other characters are kept
RECURSIVE TitleFrom(_, _, _)
TitleFrom(s, i, previous_is_cased) ==
    IF i > Len(s) THEN ""
    ELSE LET c == SubSeq(s, i, i)
         IN  IF IsLetter(c)
             THEN (IF previous_is_cased THEN LowerChar(c) ELSE UpperChar(c))
                      \o TitleFrom(s, i + 1, TRUE)
             ELSE c \o TitleFrom(s, i + 1, FALSE)

title(s) == TitleFrom(s, 1, FALSE)

\* _load_skill_mapping
skill_mapping ==
    ("javascript" :> "JavaScript") @@ ("js" :> "JavaScript")
    @@ ("react.js" :> "React") @@ ("reactjs" :> "React")
    @@ ("node.js" :> "Node.js") @@ ("nodejs" :> "Node.js")
    @@ ("python" :> "Python") @@ ("java" :> "Java")
    @@ ("c++" :> "C++") @@ ("c#" :> "C#")
    @@ ("machine learning" :> "Machine Learning") @@ ("ml" :> "Machine Learning")
    @@ ("artificial intelligence" :> "Artificial Intelligence")
    @@ ("ai" :> "Artificial Intelligence")
    @@ ("data science" :> "Data Science")
    @@ ("project management" :> "Project Management")
    @@ ("agile" :> "Agile") @@ ("scrum" :> "Scrum") @@ ("devops" :> "DevOps")
    @@ ("cloud computing" :> "Cloud Computing")
    @@ ("aws" :> "Amazon Web Services") @@ ("azure" :> "Microsoft Azure")
    @@ ("gcp" :> "Google Cloud Platform")

normalize_skill_name(skill) ==
    LET skill_lower == strip(LowerOf(skill))
    IN  DictGet(skill_mapping, skill_lower, title(skill))

(***************************************************************************)
(* normalize_skill_name called on a string, then on its own result.  The   *)
(* strings are skill names in three spellings, padded with whitespace;     *)
(* with each goes what it was built from: its lower-cased trimmed text     *)
(* and its title-cased text as Python prints it.                           *)
(***************************************************************************)
MaxPad == 1             \* most blanks of padding on either side

\* spellings <<as given, lower-cased, title-cased>> of names outside the table
OtherSkills ==
    { <<"leadership", "leadership", "Leadership">>,
      <<"SQL", "sql", "Sql">>,
      <<"data Engineering", "data engineering", "Data Engineering">>,
      <<"3d modeling", "3d modeling", "3D Modeling">>,
      <<"gO-lang", "go-lang", "Go-Lang">>,
      <<"Amazon Web Services", "amazon web services", "Amazon Web Services">>,
      <<"", "", "">> }

\* spellings of the names of the table: the key, its upper case, its value
\* where the value is a spelling of the key
TableSkills ==
    {<<k, k, "">> : k \in DOMAIN skill_mapping}
        \cup {<<"JS", "js", "">>, <<"AWS", "aws", "">>, <<"Node.JS", "node.js", "">>,
              <<"JavaScript", "javascript", "">>, <<"DevOps", "devops", "">>,
              <<"MACHINE LEARNING", "machine learning", "">>,
              <<"C++", "c++", "">>, <<"Python", "python", "">>}

RECURSIVE Blanks(_)
Blanks(n) == IF n = 0 THEN "" ELSE " " \o Blanks(n - 1)

Paddings == {Blanks(n) : n \in 0..MaxPad} \cup {"\t"}

NormalizeCalls ==
    {[skill |-> left \o w[1] \o right,
      key |-> w[2],
      titled |-> left \o w[3] \o right] :
        w \in OtherSkills \cup TableSkills, left \in Paddings, right \in Paddings}

InitNormalize ==
    /\ user_skills = <<>>
    /\ job_requirements = <<>>
    /\ market_data = EmptyDict
    /\ hash_seed = 0
    /\ np_random = 1
    /\ pc = "called"
    /\ emitted_gaps = <<>>
    /\ skill_gaps = <<>>
    /\ result = EmptyDict
    /\ call \in NormalizeCalls
    /\ ret = <<>>
    /\ model_manager = ModelManager
    /\ now = 0

normalize ==
    /\ pc = "called"
    /\ ret' = <<normalize_skill_name(call.skill)>>
    /\ pc' = "returned"
    /\ UNCHANGED <<model_manager, now,
                   user_skills, job_requirements, market_data, hash_seed,
                   np_random, emitted_gaps, skill_gaps, result, call>>

normalize_result ==
    /\ pc = "returned"
    /\ ret' = Append(ret, normalize_skill_name(ret[1]))
    /\ pc' = "renormalized"
    /\ UNCHANGED <<model_manager, now,
                   user_skills, job_requirements, market_data, hash_seed,
                   np_random, emitted_gaps, skill_gaps, result, call>>

NextNormalize == normalize \/ normalize_result

SpecNormalize == InitNormalize /\ [][NextNormalize]_vars

(***************************************************************************)
(* C19.  normalize_skill_name returns, for every string, the table value   *)
(* of the lower-cased, trimmed string when that is a key of the table      *)
(* ('js', 'JS' and ' javascript ' all give 'JavaScript') and the           *)
(* title-cased string otherwise; it has no failing path (every call        *)
(* returns one of these two values), and applied to its own result it      *)
(* returns that result.                                                    *)
(***************************************************************************)
C19_NormalizeTotalIdempotent ==
    /\ pc \in {"returned", "renormalized"} =>
          /\ call.key \in DOMAIN skill_mapping => ret[1] = skill_mapping[call.key]
          /\ call.key \notin DOMAIN skill_mapping => ret[1] = call.titled
    /\ pc = "renormalized" => ret[2] = ret[1]

\* ' javascript ' was normalized to 'JavaScript', and that to itself
C19_Witness ==
    /\ pc = "renormalized"
    /\ call.skill = " javascript "
    /\ ret = <<"JavaScript", "JavaScript">>

(***************************************************************************)
(* analyze_gaps called with skill names in several spellings: a synonym    *)
(* of the table ('js'), a padded name (' Python ') and the canonical       *)
(* names themselves.                                                       *)
(***************************************************************************)
VariantSkillDicts ==
    {[name |-> "js", level |-> 4], [name |-> " Python ", level |-> 5],
     [name |-> "JavaScript", level |-> 5]}

VariantReqStrings == {"JavaScript", "Python", "python "}

InitVariants ==
    /\ user_skills \in SeqsUpTo(VariantSkillDicts, MaxSkills)
    /\ job_requirements \in SeqsUpTo(VariantReqStrings, MaxReqs)
    /\ market_data = EmptyDict
    /\ hash_seed \in HashSeeds
    /\ np_random = 1
    /\ pc = "called"
    /\ emitted_gaps = <<>>
    /\ skill_gaps = <<>>
    /\ result = EmptyDict
    /\ call = EmptyDict
    /\ ret = EmptyDict
    /\ model_manager = ModelManager
    /\ now = 0

SpecVariants == InitVariants /\ [][Next]_vars

(***************************************************************************)
(* C18.  The gap computation compares names by canonical skill name: when  *)
(* a user skill and a requirement are spellings of the same canonical      *)
(* skill ('js' and 'JavaScript', or a name with blanks around it), the     *)
(* user counts as having the skill at the stated level and the             *)
(* requirement is not reported as missing.                                 *)
(* Violated: analyze_gaps only lower-cases the names (lines 54 and 58) and *)
(* never calls normalize_skill_name, so 'js' is not 'javascript' and       *)
(* ' python ' is not 'python'.                                             *)
(***************************************************************************)
\* the levels the user states for a canonical skill
StatedLevels(canonical) ==
    {user_skill_levels(user_skills)[u] : u \in
        {v \in 1..Len(user_skills) :
            normalize_skill_name(user_skills[v].name) = canonical}}

C18_CanonicalNameMatch ==
    Returned =>
        \A i \in ReqIndices :
            LET canonical == normalize_skill_name(job_requirements[i])
            IN  StatedLevels(canonical) # {} =>
                    \A k \in GapIndices :
                        emitted_gaps[k].skill_name = lower(job_requirements[i])
                            => /\ ~IsMissing(emitted_gaps[k])
                               /\ emitted_gaps[k].current_level
                                      \in StatedLevels(canonical)

(***************************************************************************)
(* DataValidator.validate_skills_data (ai-services/utils/preprocessing.py) *)
(* called on its own.  Python values carry their type: t is the type name, *)
(* the value is in a field of its own per type (a float in tenths).  A     *)
(* skill dict is what the caller                                           *)
(* builds with SkillData.dict() (api/main.py line 285: an optional field   *)
(* left out arrives as None) or any other dict.                            *)
(***************************************************************************)
MaxEntries == 2         \* longest skills_data list

PyNone == [t |-> "NoneType"]
PyInt(n) == [t |-> "int", int |-> n]
PyFloat(tenths) == [t |-> "float", tenths |-> tenths]
PyStr(s) == [t |-> "str", str |-> s]
PyDict(d) == [t |-> "dict", items |-> d]
PyList(l) == [t |-> "list", elems |-> l]

\* a level or experience value as a number of tenths
Tenths(x) == IF x.t = "int" THEN 10 * x.int ELSE x.tenths

\* a <= x and x <= b on a Python value: int and float compare with int,
\* None does not (TypeError)
IsNumber(x) == x.t \in {"int", "float"}

LevelValues == {PyNone, PyInt(0), PyInt(3), PyInt(6), PyFloat(25)}
ExperienceValues == {PyNone, PyInt(-1), PyInt(2)}

\* a key the dict does not have
Absent == [t |-> "absent"]

Item(key, value) == IF value = Absent THEN EmptyDict ELSE (key :> value)

\* the dicts with any of the keys name, level, experience
SkillEntries ==
    {PyDict(Item("name", n) @@ Item("level", l) @@ Item("experience", e)) :
        n \in {Absent, PyStr("Python")},
        l \in {Absent} \cup LevelValues,
        e \in {Absent} \cup ExperienceValues}

\* what a list can hold: a skill dict, or something that is no dict
ListEntries == SkillEntries \cup {PyStr("Python")}

\* one pass of the loop of lines 490-502 on entry number i (from 0): the
\* messages it appends, or the TypeError of a comparison with None
ValidateEntry(i, skill) ==
    IF skill.t # "dict"
    THEN Ok(<<"Skill at index " \o ToString(i) \o " must be a dictionary">>)
    ELSE LET d == skill.items
             name_errors ==
                 IF "name" \notin DOMAIN d
                 THEN <<"Skill at index " \o ToString(i) \o " missing 'name' field">>
                 ELSE <<>>
         IN  IF "level" \in DOMAIN d /\ ~IsNumber(d.level)
             THEN Raise("'<=' not supported between instances of 'int' and 'NoneType'")
             ELSE LET level_errors ==
                          IF "level" \in DOMAIN d
                             /\ ~(10 <= Tenths(d.level) /\ Tenths(d.level) <= 50)
                          THEN <<"Skill at index " \o ToString(i)
                                     \o " has invalid level (must be 1-5)">>
                          ELSE <<>>
                  IN  IF "experience" \in DOMAIN d /\ ~IsNumber(d.experience)
                      THEN Raise("'<' not supported between instances of 'NoneType' and 'int'")
                      ELSE LET experience_errors ==
                                   IF "experience" \in DOMAIN d
                                      /\ Tenths(d.experience) < 0
                                   THEN <<"Skill at index " \o ToString(i)
                                              \o " has negative experience">>
                                   ELSE <<>>
                           IN  Ok(name_errors \o level_errors \o experience_errors)

\* for i, skill in enumerate(skills_data)
RECURSIVE ValidateLoop(_, _, _)
ValidateLoop(skills, i, errors) ==
    IF i > Len(skills) THEN Ok(errors)
    ELSE LET e == ValidateEntry(i - 1, skills[i])
         IN  IF ~e.ok THEN e ELSE ValidateLoop(skills, i + 1, errors \o e.value)

validate_skills_data(skills_data) ==
    IF skills_data.t # "list"
    THEN Ok([is_valid |-> FALSE, errors |-> <<"Skills data must be a list">>])
    ELSE LET errors == ValidateLoop(skills_data.elems, 1, <<>>)
         IN  IF ~errors.ok THEN errors
             ELSE Ok([is_valid |-> Len(errors.value) = 0, errors |-> errors.value])

InitValidate ==
    /\ user_skills = <<>>
    /\ job_requirements = <<>>
    /\ market_data = EmptyDict
    /\ hash_seed = 0
    /\ np_random = 1
    /\ pc = "called"
    /\ emitted_gaps = <<>>
    /\ skill_gaps = <<>>
    /\ result = EmptyDict
    /\ call \in {[skills_data |-> PyList(l)] : l \in SeqsUpTo(ListEntries, MaxEntries)}
                   \cup {[skills_data |-> PyNone]}
    /\ ret = EmptyDict
    /\ model_manager = ModelManager
    /\ now = 0

validate ==
    /\ pc = "called"
    /\ ret' = validate_skills_data(call.skills_data)
    /\ pc' = "returned"
    /\ UNCHANGED <<model_manager, now,
                   user_skills, job_requirements, market_data, hash_seed,
                   np_random, emitted_gaps, skill_gaps, result, call>>

NextValidate == validate

SpecValidate == InitValidate /\ [][NextValidate]_vars

(***************************************************************************)
(* C21.  validate_skills_data never raises and returns (is_valid, errors)  *)
(* with is_valid true exactly when errors is empty; it accepts a list      *)
(* exactly when every entry carries a name, has a level that is an         *)
(* integer in 1..5 and has experience >= 0, and an entry breaking one of   *)
(* the three gets an error message.                                        *)
(* Violated: a level or experience of None raises TypeError in the         *)
(* comparison (lines 498, 501); a level of 2.5 and an entry without level  *)
(* are accepted.                                                           *)
(***************************************************************************)
\* experience is read as optional: absent or None counts as no violation
AcceptableEntry(entry) ==
    /\ entry.t = "dict"
    /\ "name" \in DOMAIN entry.items
    /\ "level" \in DOMAIN entry.items
    /\ entry.items.level.t = "int"
    /\ entry.items.level.int \in 1..5
    /\ ("experience" \in DOMAIN entry.items /\ IsNumber(entry.items.experience))
           => Tenths(entry.items.experience) >= 0

C21_ValidatorContract ==
    Returned =>
        /\ ret.ok
        /\ ret.value.is_valid <=> ret.value.errors = <<>>
        /\ call.skills_data.t = "list" =>
              (ret.value.is_valid
                   <=> \A i \in 1..Len(call.skills_data.elems) :
                           AcceptableEntry(call.skills_data.elems[i]))

(***************************************************************************)
(* Two gap-analysis requests served by one process.  The endpoint          *)
(* (api/main.py line 310) is a coroutine that calls the analysis without   *)
(* awaiting, so each call runs as a whole, in either order; both draw      *)
(* from numpy's process-wide generator np_random.                          *)
(***************************************************************************)
Requests == {"A", "B"}

InitRequests ==
    /\ user_skills = <<>>
    /\ job_requirements = <<>>
    /\ market_data = EmptyDict
    /\ hash_seed = 0
    /\ np_random \in 1..Len(NormalStream)
    /\ pc = "called"
    /\ emitted_gaps = <<>>
    /\ skill_gaps = <<>>
    /\ result = EmptyDict
    /\ \E a, b \in SeqsUpTo(ReqStrings, MaxReqs) :
          call = [A |-> [user_skills |-> <<>>, job_requirements |-> a],
                  B |-> [user_skills |-> <<>>, job_requirements |-> b],
                  seed |-> np_random]
    /\ ret = EmptyDict
    /\ model_manager = ModelManager
    /\ now = 0

\* one request served: analyze_gaps on its arguments, from the generator's
\* current position
serve(r) ==
    /\ pc = "called"
    /\ r \notin DOMAIN ret
    /\ LET computed == ComputeGaps(call[r].user_skills, call[r].job_requirements,
                                   market_data, np_random)
           sorted == SortByPriority(computed.gaps)
       IN  /\ np_random' = computed.pos
           /\ ret' = ret @@ (r :> [emitted_gaps |-> computed.gaps,
                                   result |-> Report(call[r].user_skills,
                                                     call[r].job_requirements,
                                                     market_data, hash_seed,
                                                     sorted)])
    /\ pc' = IF DOMAIN ret' = Requests THEN "returned" ELSE "called"
    /\ UNCHANGED <<model_manager, now,
                   user_skills, job_requirements, market_data, hash_seed,
                   emitted_gaps, skill_gaps, result, call>>

NextRequests == \E r \in Requests : serve(r)

SpecRequests == InitRequests /\ [][NextRequests]_vars

(***************************************************************************)
(* C22.  Each of two requests served together produces what it produces    *)
(* when served alone from the same seed: the jitter drawn for one does     *)
(* not depend on how many values the other draws, and no state written by  *)
(* one request is read by the other.                                       *)
(* Violated: _estimate_development_time draws from the process-wide        *)
(* generator (line 175), so the request served second starts where the     *)
(* first left the stream and computes other estimated_time values.         *)
(***************************************************************************)
\* what request r computes when it is the only one, from the same seed
Alone(r) ==
    LET computed == ComputeGaps(call[r].user_skills, call[r].job_requirements,
                                market_data, call.seed)
    IN  [emitted_gaps |-> computed.gaps,
         result |-> Report(call[r].user_skills, call[r].job_requirements,
                           market_data, hash_seed, SortByPriority(computed.gaps))]

C22_RequestsIndependent ==
    Returned => \A r \in Requests : ret[r] = Alone(r)

(***************************************************************************)
(* _estimate_development_time called on its own, for the gap sizes the gap *)
(* computation produces (levels are 0..5) and a jitter value in tenths.    *)
(***************************************************************************)
MaxJitter == 20         \* largest jitter, in tenths, either side of 0

GapSizes == 1..5

InitEstimate ==
    /\ user_skills = <<>>
    /\ job_requirements = <<>>
    /\ market_data = EmptyDict
    /\ hash_seed = 0
    /\ np_random = 1
    /\ pc = "called"
    /\ emitted_gaps = <<>>
    /\ skill_gaps = <<>>
    /\ result = EmptyDict
    /\ call \in [gap_size : GapSizes, variance : (-MaxJitter)..MaxJitter]
    /\ ret = EmptyDict
    /\ model_manager = ModelManager
    /\ now = 0

estimate_development_time ==
    /\ pc = "called"
    /\ ret' = [estimated_time |->
                   _estimate_development_time(call.gap_size, call.variance)]
    /\ pc' = "returned"
    /\ UNCHANGED <<model_manager, now,
                   user_skills, job_requirements, market_data, hash_seed,
                   np_random, emitted_gaps, skill_gaps, result, call>>

NextEstimate == estimate_development_time

SpecEstimate == InitEstimate /\ [][NextEstimate]_vars

(***************************************************************************)
(* C23 as stated.  With zero jitter the estimated_time is 2.5 * gap_size   *)
(* rounded to the nearest integer (a half rounded up, or to the even       *)
(* neighbour as Python's round does), and for every jitter value it is an  *)
(* integer >= 1.                                                           *)
(* Violated: int() truncates, so gap_size 3 gives 7, not 8.                *)
(***************************************************************************)
\* n tenths rounded to an integer, a half going up / to the even neighbour
RoundHalfUp(n) == (n + 5) \div 10
RoundHalfEven(n) ==
    IF n % 10 = 5 THEN (IF (n \div 10) % 2 = 0 THEN n \div 10 ELSE n \div 10 + 1)
    ELSE RoundHalfUp(n)

C23_RoundedEstimate ==
    Returned =>
        /\ ret.estimated_time \in Int
        /\ ret.estimated_time >= 1
        /\ call.variance = 0 =>
              ret.estimated_time \in {RoundHalfUp(25 * call.gap_size),
                                      RoundHalfEven(25 * call.gap_size)}

(***************************************************************************)
(* C23, amended.  With zero jitter the estimated_time is 2.5 * gap_size    *)
(* with the fraction cut off (2, 5, 7, 10, 12 months for gap sizes 1..5);  *)
(* for every jitter value it is an integer >= 1, namely the larger of 1    *)
(* and 2.5 * gap_size + jitter with the fraction cut off.                  *)
(***************************************************************************)
C23_TruncatedEstimate ==
    Returned =>
        /\ ret.estimated_time \in Int
        /\ ret.estimated_time >= 1
        /\ call.variance = 0 =>
              ret.estimated_time = (25 * call.gap_size) \div 10
        /\ 25 * call.gap_size + call.variance >= 10 =>
              /\ 10 * ret.estimated_time <= 25 * call.gap_size + call.variance
              /\ 25 * call.gap_size + call.variance < 10 * (ret.estimated_time + 1)
        /\ 25 * call.gap_size + call.variance < 10 => ret.estimated_time = 1

\* gap size 3 without jitter: 7 months, where rounding would give 8; the
\* minimum of 1 is reached by other calls (gap size 1, jitter -2.0)
C23_Witness ==
    /\ Returned
    /\ call = [gap_size |-> 3, variance |-> 0]
    /\ ret.estimated_time = 7

(***************************************************************************)
(* C24.  Before sorting, the gap records are emitted in the order of the   *)
(* requirements in the input list, and among gaps of equal priority the    *)
(* sorted list follows requirement order, whether the gap is for a skill   *)
(* the user has or for a missing skill.                                    *)
(* Violated: the gaps of the skills the user has are emitted first, in the *)
(* order of the user's list (lines 65-78), the missing ones after them     *)
(* (lines 81-91).                                                          *)
(***************************************************************************)
\* the place of a gap's skill in the requirement list (its first mention)
RequirementIndex(name) ==
    CHOOSE k \in ReqIndices :
        /\ job_skill_names(job_requirements)[k] = name
        /\ \A j \in 1..(k - 1) : job_skill_names(job_requirements)[j] # name

InRequirementOrder(gaps, i, j) ==
    RequirementIndex(gaps[i].skill_name) <= RequirementIndex(gaps[j].skill_name)

C24_RequirementOrder ==
    Returned =>
        /\ \A i, j \in GapIndices :
              i < j => InRequirementOrder(emitted_gaps, i, j)
        /\ \A i, j \in 1..Len(skill_gaps) :
              (i < j /\ skill_gaps[i].priority = skill_gaps[j].priority)
                  => InRequirementOrder(skill_gaps, i, j)

(***************************************************************************)
(* C25.  In every report returned by analyze_gaps the summary agrees with  *)
(* the rest of the report: total_gaps is the number of gap records,        *)
(* high_priority_gaps is the number of gaps with priority >= 0.8 and the   *)
(* length of timeline.critical_path, critical_path lists the skill names   *)
(* of the high-priority gaps in their sorted order, and                    *)
(* total_development_time is the sum of the gaps' estimated_time.          *)
(* Violated: a call that finds a gap returns the dict of lines 116-126,    *)
(* which has no timeline.                                                  *)
(***************************************************************************)
\* the gaps of a list with priority >= 0.8, in the order of the list
RECURSIVE HighPriorityNames(_)
HighPriorityNames(gaps) ==
    IF gaps = <<>> THEN <<>>
    ELSE (IF Head(gaps).priority >= 80 THEN <<Head(gaps).skill_name>> ELSE <<>>)
             \o HighPriorityNames(Tail(gaps))

RECURSIVE TotalEstimatedTime(_)
TotalEstimatedTime(gaps) ==
    IF gaps = <<>> THEN 0
    ELSE Head(gaps).estimated_time + TotalEstimatedTime(Tail(gaps))

C25_SummaryAgreesWithReport ==
    Returned =>
        /\ result.summary.total_gaps = Len(result.gaps)
        /\ result.summary.high_priority_gaps = Len(HighPriorityNames(result.gaps))
        /\ result.summary.total_development_time = TotalEstimatedTime(result.gaps)
        /\ "timeline" \in DOMAIN result
        /\ result.timeline.critical_path = HighPriorityNames(result.gaps)

(***************************************************************************)
(* C27.  analyze_gaps never propagates an exception: a call returns either *)
(* a full report or, when a step of the pipeline raised, a result with an  *)
(* error entry, gaps = [], a summary whose total_gaps, high_priority_gaps, *)
(* total_development_time, coverage_percentage and match_score are all 0,  *)
(* and neither recommendations nor timeline.                               *)
(***************************************************************************)
C27_ErrorResult ==
    Returned =>
        IF HasError
        THEN /\ DOMAIN result = {"error", "gaps", "summary"}
             /\ result.error # ""
             /\ result.gaps = <<>>
             /\ DOMAIN result.summary =
                    {"total_gaps", "high_priority_gaps", "total_development_time",
                     "coverage_percentage", "match_score"}
             /\ result.summary.total_gaps = 0
             /\ result.summary.high_priority_gaps = 0
             /\ result.summary.total_development_time = 0
             /\ result.summary.coverage_percentage.num = 0
             /\ result.summary.match_score.num = 0
        ELSE DOMAIN result = {"gaps", "summary", "recommendations", "timeline"}

\* a call whose recommendation step raised after the gap computation had
\* found a high-priority gap with a development time
C27_Witness ==
    /\ Returned
    /\ HasError
    /\ \E i \in 1..Len(skill_gaps) :
          /\ skill_gaps[i].priority >= 80
          /\ skill_gaps[i].estimated_time > 0

(***************************************************************************)
(* The gap computation followed by the timeline step, as lines 53-94 and   *)
(* 109 of analyze_gaps run them, for a user without skills: every          *)
(* requirement becomes a gap whose priority _calculate_priority takes from *)
(* the market data.  The market data add one in-range dict with the lowest *)
(* values, 0, for sql.                                                     *)
(***************************************************************************)
MaxPhaseReqs == 3       \* longest requirement list of a planned call

LowestMarketData ==
    [demand |-> [sql |-> 0, python |-> 10],
     salary_impact |-> [sql |-> 0, python |-> 10]]

InitPlan ==
    /\ user_skills = <<>>
    /\ job_requirements \in SeqsUpTo(ReqStrings, MaxPhaseReqs)
    /\ market_data \in MarketDatas \cup {BandMarketData, LowestMarketData}
    /\ hash_seed = 0
    /\ np_random = 1
    /\ pc = "called"
    /\ emitted_gaps = <<>>
    /\ skill_gaps = <<>>
    /\ result = EmptyDict
    /\ call = EmptyDict
    /\ ret = EmptyDict
    /\ model_manager = ModelManager
    /\ now = 0

\* lines 53-94
plan_gaps ==
    /\ pc = "called"
    /\ LET computed == ComputeGaps(user_skills, job_requirements, market_data,
                                   np_random)
       IN  /\ emitted_gaps' = computed.gaps
           /\ np_random' = computed.pos
           /\ skill_gaps' = SortByPriority(computed.gaps)
    /\ pc' = "sorted"
    /\ UNCHANGED <<model_manager, now,
                   user_skills, job_requirements, market_data, hash_seed,
                   result, call, ret>>

\* line 109
plan_timeline ==
    /\ pc = "sorted"
    /\ ret' = _create_development_timeline(skill_gaps)
    /\ pc' = "returned"
    /\ UNCHANGED <<model_manager, now,
                   user_skills, job_requirements, market_data, hash_seed,
                   np_random, emitted_gaps, skill_gaps, result, call>>

NextPlan == plan_gaps \/ plan_timeline

SpecPlan == InitPlan /\ [][NextPlan]_vars

(***************************************************************************)
(* C28.  When every market demand and salary_impact value is in [0,1] (or  *)
(* absent, defaulting to 0.5), every gap's priority is at least 0.5, the   *)
(* low-priority band is empty, the timeline has at most two phases and     *)
(* total_duration is 0, 6 or 12.                                           *)
(***************************************************************************)
\* the values of the dict under key of the market data, in tenths
MarketValues(key) ==
    LET d == DictGet(market_data, key, EmptyDict)
    IN  {d[k] : k \in DOMAIN d}

MarketInRange ==
    \A v \in MarketValues("demand") \cup MarketValues("salary_impact") :
        0 <= v /\ v <= 10

C28_NoLowBand ==
    (Returned /\ MarketInRange) =>
        /\ \A i \in 1..Len(skill_gaps) : skill_gaps[i].priority >= 50
        /\ \A i \in 1..Len(ret.phases) : ret.phases[i].name # "Specialized Skills Development"
        /\ Len(ret.phases) <= 2
        /\ ret.total_duration \in {0, 6, 12}

\* in-range market data with a gap exactly on the limit 0.5 and one above
\* 0.8: two phases, twelve months
C28_Witness ==
    /\ Returned
    /\ MarketInRange
    /\ \E i \in 1..Len(skill_gaps) : skill_gaps[i].priority = 50
    /\ Len(ret.phases) = 2
    /\ ret.total_duration = 12

(***************************************************************************)
(* ai-services/models/model_manager.py: the ModelManager.                  *)
(*                                                                         *)
(* model_manager holds the instance's dicts loaded_models, model_metadata  *)
(* and cache_expiry, keyed by model name.  Time is in hours.  The files on *)
(* disk stay as they are; the object unpickled from a file is known by the *)
(* file's path.  call holds the last call, ret what it returned, with      *)
(* opened = the call read a model file.                                    *)
(***************************************************************************)
MaxHours == 48          \* the clock stops here
MaxAccess == 2          \* most accesses counted for one registration

\* self.cache_duration = timedelta(hours=24)
CacheDuration == 24

ModelNames == {"gaps", "skills"}
\* the files on disk, and the paths register_model is called with: old.pkl
\* is a model file that is no longer there
ModelFiles == {"v1.pkl", "v2.joblib", "notes.txt"}
ModelPaths == {"v1.pkl", "v2.joblib", "old.pkl"}

None == [t |-> "NoneType"]
\* datetime.isoformat(): a string that names the instant
isoformat(t) == [t |-> "str", instant |-> t]
\* what pickle.load / joblib.load return for the file at path
Unpickled(path) == [t |-> "model", file |-> path]
\* os.path.getsize
FileSize(path) == Len(path)

\* str.endswith
endswith(s, suffix) ==
    /\ Len(suffix) <= Len(s)
    /\ SubSeq(s, Len(s) - Len(suffix) + 1, Len(s)) = suffix

\* d[key] = value ; del d[key]
DictSet(d, key, value) == (key :> value) @@ d
DictDel(d, key) == [k \in DOMAIN d \ {key} |-> d[k]]

\* _update_access_metadata, lines 223-228
_update_access_metadata(mm, model_name, t) ==
    IF model_name \in DOMAIN mm.model_metadata
    THEN [mm EXCEPT !.model_metadata[model_name] =
              [@ EXCEPT !.last_accessed = isoformat(t),
                        !.access_count = @ + 1]]
    ELSE mm

\* mutation of IsCached: an entry counts as fresh at its expiry instant too
IsCached_AtExpiry(mm, model_name, force_reload, t) ==
    /\ model_name \in DOMAIN mm.loaded_models
    /\ ~force_reload
    /\ model_name \in DOMAIN mm.cache_expiry
    /\ t <= mm.cache_expiry[model_name]

\* load_model, lines 107-110: the condition of the cached branch
IsCached(mm, model_name, force_reload, t) ==
    /\ model_name \in DOMAIN mm.loaded_models
    /\ ~force_reload
    /\ model_name \in DOMAIN mm.cache_expiry
    /\ t < mm.cache_expiry[model_name]

\* load_model, lines 123-132: reading the file, which raises when the file
\* is not there and returns None for another extension
ReadModel(model_path, disk) ==
    IF endswith(model_path, ".pkl") \/ endswith(model_path, ".pickle")
           \/ endswith(model_path, ".joblib")
    THEN IF model_path \in disk THEN Ok(Unpickled(model_path))
         ELSE Raise("[Errno 2] No such file or directory: '" \o model_path \o "'")
    ELSE Ok(None)

\* load_model, lines 105-145: the manager after the call and what it returns
LoadModel(mm, model_name, force_reload, disk, t) ==
    IF IsCached(mm, model_name, force_reload, t)
    THEN [mm |-> _update_access_metadata(mm, model_name, t),
          value |-> mm.loaded_models[model_name], opened |-> FALSE]
    ELSE IF model_name \notin DOMAIN mm.model_metadata
    THEN [mm |-> mm, value |-> None, opened |-> FALSE]
    ELSE LET model_path == mm.model_metadata[model_name].model_path
             model == ReadModel(model_path, disk)
         IN  IF ~model.ok \/ model.value = None
             THEN [mm |-> mm, value |-> None, opened |-> FALSE]
             ELSE LET cached ==
                          [mm EXCEPT
                              !.loaded_models =
                                  DictSet(@, model_name, model.value),
                              !.cache_expiry =
                                  DictSet(@, model_name, t + CacheDuration)]
                  IN  [mm |-> _update_access_metadata(cached, model_name, t),
                       value |-> model.value, opened |-> TRUE]

\* mutation of Unloaded: the expiry entry stays behind
Unloaded_KeepsExpiry(mm, model_name) ==
    IF model_name \in DOMAIN mm.loaded_models
    THEN [mm EXCEPT !.loaded_models = DictDel(@, model_name)]
    ELSE mm

\* unload_model, lines 158-163: the manager after the call
Unloaded(mm, model_name) ==
    IF model_name \in DOMAIN mm.loaded_models
    THEN [mm EXCEPT !.loaded_models = DictDel(@, model_name),
                    !.cache_expiry =
                        IF model_name \in DOMAIN @ THEN DictDel(@, model_name)
                        ELSE @]
    ELSE mm

\* cleanup_expired_cache, lines 210-217: unload_model for every expired name
RECURSIVE UnloadAll(_, _)
UnloadAll(mm, names) ==
    IF names = {} THEN mm
    ELSE LET n == CHOOSE x \in names : TRUE
         IN  UnloadAll(Unloaded(mm, n), names \ {n})

expired_models(mm, current_time) ==
    {name \in DOMAIN mm.cache_expiry : current_time > mm.cache_expiry[name]}

\* _load_metadata, lines 37-46: no metadata file, or one written by an
\* earlier process that had registered old.pkl and notes.txt
PersistedMetadata ==
    {EmptyDict,
     [gaps |-> [registered_at |-> isoformat(0), model_path |-> "old.pkl",
                file_size |-> FileSize("old.pkl"), last_accessed |-> None,
                access_count |-> 0],
      skills |-> [registered_at |-> isoformat(0), model_path |-> "notes.txt",
                  file_size |-> FileSize("notes.txt"), last_accessed |-> None,
                  access_count |-> 0]]}

InitManager ==
    /\ user_skills = <<>>
    /\ job_requirements = <<>>
    /\ market_data = EmptyDict
    /\ hash_seed = 0
    /\ np_random = 1
    /\ pc = "idle"
    /\ emitted_gaps = <<>>
    /\ skill_gaps = <<>>
    /\ result = EmptyDict
    /\ call = EmptyDict
    /\ ret = EmptyDict
    /\ \E metadata \in PersistedMetadata :
          model_manager = [ModelManager EXCEPT !.model_metadata = metadata]
    /\ now = 0

Idle ==
    UNCHANGED <<user_skills, job_requirements, market_data, hash_seed,
                np_random, pc, emitted_gaps, skill_gaps, result>>

\* lines 57-92, called with metadata = {}
register_model(model_name, model_path) ==
    /\ call' = [op |-> "register_model", model_name |-> model_name,
                model_path |-> model_path]
    /\ IF model_path \notin ModelFiles
       THEN /\ ret' = [value |-> FALSE, opened |-> FALSE]
            /\ UNCHANGED model_manager
       ELSE /\ model_manager' =
                   [model_manager EXCEPT !.model_metadata =
                       DictSet(@, model_name,
                               [registered_at |-> isoformat(now),
                                model_path |-> model_path,
                                file_size |-> FileSize(model_path),
                                last_accessed |-> None,
                                access_count |-> 0])]
            /\ ret' = [value |-> TRUE, opened |-> FALSE]
    /\ UNCHANGED now
    /\ Idle

\* lines 94-145
load_model(model_name, force_reload) ==
    /\ model_name \in DOMAIN model_manager.model_metadata =>
           model_manager.model_metadata[model_name].access_count < MaxAccess
    /\ call' = [op |-> "load_model", model_name |-> model_name,
                force_reload |-> force_reload]
    /\ LET loaded == LoadModel(model_manager, model_name, force_reload, ModelFiles, now)
       IN  /\ model_manager' = loaded.mm
           /\ ret' = [value |-> loaded.value, opened |-> loaded.opened]
    /\ UNCHANGED now
    /\ Idle

\* lines 147-167
unload_model(model_name) ==
    /\ call' = [op |-> "unload_model", model_name |-> model_name]
    /\ model_manager' = Unloaded(model_manager, model_name)
    /\ ret' = [value |-> model_name \in DOMAIN model_manager.loaded_models,
               opened |-> FALSE]
    /\ UNCHANGED now
    /\ Idle

\* lines 201-221
cleanup_expired_cache ==
    /\ call' = [op |-> "cleanup_expired_cache"]
    /\ LET expired == expired_models(model_manager, now)
       IN  /\ model_manager' = UnloadAll(model_manager, expired)
           /\ ret' = [value |-> Cardinality(expired \cap
                                    DOMAIN model_manager.loaded_models),
                      opened |-> FALSE]
    /\ UNCHANGED now
    /\ Idle

\* lines 281-304
delete_model(model_name) ==
    /\ call' = [op |-> "delete_model", model_name |-> model_name]
    /\ LET unloaded == Unloaded(model_manager, model_name)
       IN  model_manager' =
               IF model_name \in DOMAIN unloaded.model_metadata
               THEN [unloaded EXCEPT !.model_metadata = DictDel(@, model_name)]
               ELSE unloaded
    /\ ret' = [value |-> TRUE, opened |-> FALSE]
    /\ UNCHANGED now
    /\ Idle

\* the clock moves on by the cache duration: a model loaded now is at its
\* expiry instant after one step and past it after two
tick ==
    /\ now + CacheDuration <= MaxHours
    /\ now' = now + CacheDuration
    /\ UNCHANGED <<model_manager, call, ret>>
    /\ Idle

NextManager ==
    \/ \E model_name \in ModelNames, model_path \in ModelPaths :
          register_model(model_name, model_path)
    \/ \E model_name \in ModelNames, force_reload \in BOOLEAN :
          load_model(model_name, force_reload)
    \/ \E model_name \in ModelNames : unload_model(model_name)
    \/ cleanup_expired_cache
    \/ \E model_name \in ModelNames : delete_model(model_name)
    \/ tick

SpecManager == InitManager /\ [][NextManager]_vars

(***************************************************************************)
(* Vocabulary of the ModelManager properties.                              *)
(***************************************************************************)
loaded_models == model_manager.loaded_models
model_metadata == model_manager.model_metadata
cache_expiry == model_manager.cache_expiry

LastCall(op) == "op" \in DOMAIN call /\ call.op = op

\* a step that is the call load_model(model_name, force_reload)
LoadStep(model_name, force_reload) ==
    /\ now' = now
    /\ call' = [op |-> "load_model", model_name |-> model_name,
                force_reload |-> force_reload]

\* the name has a cache entry that the current time is strictly before
Fresh(model_name) ==
    /\ model_name \in DOMAIN loaded_models
    /\ model_name \in DOMAIN cache_expiry
    /\ now < cache_expiry[model_name]

\* the file is on disk and has one of the extensions load_model reads
Readable(path) ==
    /\ path \in ModelFiles
    /\ \E ext \in {".pkl", ".pickle", ".joblib"} : endswith(path, ext)

ReturnsCached(model_name) ==
    /\ ret'.value = loaded_models[model_name]
    /\ ~ret'.opened
    /\ model_manager'.loaded_models = loaded_models
    /\ model_manager'.cache_expiry = cache_expiry

Reloads(model_name) ==
    /\ ret'.opened
    /\ ret'.value = Unpickled(model_metadata[model_name].model_path)
    /\ model_manager'.loaded_models[model_name] = ret'.value
    /\ model_manager'.cache_expiry[model_name] = now + CacheDuration

C29_CacheConsistent ==
    /\ [](/\ DOMAIN loaded_models = DOMAIN cache_expiry
          /\ DOMAIN loaded_models \subseteq DOMAIN model_metadata)
    /\ [][\A model_name \in ModelNames, force_reload \in BOOLEAN :
             (/\ LoadStep(model_name, force_reload)
              /\ model_name \notin DOMAIN model_metadata
              /\ model_name \notin DOMAIN loaded_models)
                 => /\ ret'.value = None
                    /\ model_manager' = model_manager
         ]_vars

\* cleanup_expired_cache has just unloaded a model while the other name is
\* still registered, and a load of an unregistered name is reached too
C29_Witness ==
    /\ LastCall("cleanup_expired_cache")
    /\ ret.value >= 1
    /\ DOMAIN loaded_models # DOMAIN model_metadata
    /\ DOMAIN model_metadata # {}

(***************************************************************************)
(* C30.  load_model(name) always returns the model stored at the path      *)
(* currently registered for name: after register_model(name, new_path)     *)
(* replaced an earlier registration, the next load_model(name) without     *)
(* force_reload returns the model of new_path.                             *)
(* Violated: register_model leaves the cache entry of the earlier          *)
(* registration in place, and load_model answers from it until it expires. *)
(***************************************************************************)
C30_LoadsRegisteredPath ==
    (/\ LastCall("load_model")
     /\ ~call.force_reload
     /\ call.model_name \in DOMAIN model_metadata
     /\ ret.value # None)
        => ret.value = Unpickled(model_metadata[call.model_name].model_path)


====
